---------------------------- MODULE Spec2Model ----------------------------
(***************************************************************************)
(* kukuiski/dbvacancy: the PostgreSQL schema created by main.py, the       *)
(* DBManager insert and query methods that run SQL against it, and the     *)
(* control flow of main() and interactive_menu().                          *)
(*                                                                         *)
(* SQL values: a nullable column holds <<>> (NULL) or <<x>>.  Numbers of   *)
(* type NUMERIC are exact rationals <<n, d>> with d > 0, in lowest terms.  *)
(* Text that is pattern-matched (vacancy titles, keywords) is a sequence   *)
(* of one-character strings.                                               *)
(***************************************************************************)
EXTENDS Integers, Sequences, FiniteSets, TLC

VARIABLES db, last, pc, choice, processed

vars == <<db, last, pc, choice, processed>>

\* ------------------------------------------------------------------ bounds
MaxEmployerId == 2
MaxVacancyId == 2

EmployerIds == 1..MaxEmployerId
VacancyIds == 1..MaxVacancyId

\* ------------------------------------------------------------- SQL values
NULL == <<>>
Some(x) == <<x>>
IsNull(o) == o = <<>>

RECURSIVE Gcd(_, _)
Gcd(a, b) == IF b = 0 THEN a ELSE Gcd(b, a % b)

Abs(x) == IF x < 0 THEN -x ELSE x

\* The rational n/d (d # 0) in lowest terms with a positive denominator.
Rat(n, d) ==
    LET g == Gcd(Abs(n), Abs(d))
        s == IF d < 0 THEN -1 ELSE 1
    IN  <<s * (n \div g), s * (d \div g)>>

RatAdd(a, b) == Rat(a[1] * b[2] + b[1] * a[2], a[2] * b[2])
RatDiv(a, b) == Rat(a[1] * b[2], a[2] * b[1])
RatGt(a, b) == a[1] * b[2] > b[1] * a[2]
RatOfInt(i) == <<i, 1>>

\* ----------------------------------------------------------------- schema
\* CREATE TABLE employers / currencies / vacancies: an empty database with
\* the three tables present.
EmptyTables == [schema |-> TRUE, employers |-> {}, currencies |-> {}, vacancies |-> {}]

\* DROP TABLE IF EXISTS ... CASCADE, three times, then commit.
DroppedTables == [schema |-> FALSE, employers |-> {}, currencies |-> {}, vacancies |-> {}]

EmployerKeys(d) == {e.id : e \in d.employers}
CurrencyCodesOf(d) == {c.code : c \in d.currencies}
VacancyKeys(d) == {v.id : v \in d.vacancies}
VacancyUrls(d) == {v.alternate_url : v \in d.vacancies}

\* The outcome of one statement: the tables after it, the error it raised
\* ("" for none) and cursor.rowcount.
Outcome(d, err, n) == [db |-> d, error |-> err, rowcount |-> n]

\* The constraint violations of the vacancies table, by the constraint's name.
UniqueUrl == "UniqueViolation vacancies_alternate_url_key"
FkEmployer == "ForeignKeyViolation vacancies_employer_id_fkey"
FkCurrency == "ForeignKeyViolation vacancies_salary_currency_fkey"

\* Mutant: ON CONFLICT (id) DO UPDATE, the later payload replaces the row.
sql_upsert_employer(d, e) ==
    IF e.id \in EmployerKeys(d)
    THEN Outcome([d EXCEPT !.employers = {r \in @ : r.id # e.id} \cup {e}], "", 1)
    ELSE Outcome([d EXCEPT !.employers = @ \cup {e}], "", 1)

\* INSERT INTO employers ... ON CONFLICT (id) DO NOTHING
sql_insert_employer(d, e) ==
    IF e.id \in EmployerKeys(d)
    THEN Outcome(d, "", 0)
    ELSE Outcome([d EXCEPT !.employers = @ \cup {e}], "", 1)

\* INSERT INTO currencies ... ON CONFLICT (code) DO NOTHING
\* (rate NUMERIC NOT NULL: any number is accepted)
sql_insert_currency(d, c) ==
    IF c.code \in CurrencyCodesOf(d)
    THEN Outcome(d, "", 0)
    ELSE Outcome([d EXCEPT !.currencies = @ \cup {c}], "", 1)

\* Mutant: ON CONFLICT DO NOTHING without a target, which also swallows a
\* conflict on alternate_url.
sql_insert_vacancy_any_conflict(d, v) ==
    IF v.id \in VacancyKeys(d) \/ v.alternate_url \in VacancyUrls(d)
    THEN Outcome(d, "", 0)
    ELSE IF ~IsNull(v.employer_id) /\ v.employer_id[1] \notin EmployerKeys(d)
    THEN Outcome(d, FkEmployer, 0)
    ELSE IF ~IsNull(v.salary_currency) /\ v.salary_currency[1] \notin CurrencyCodesOf(d)
    THEN Outcome(d, FkCurrency, 0)
    ELSE Outcome([d EXCEPT !.vacancies = @ \cup {v}], "", 1)

\* Mutant: salary_currency TEXT without REFERENCES currencies(code).
sql_insert_vacancy_no_currency_fk(d, v) ==
    IF v.id \in VacancyKeys(d)
    THEN Outcome(d, "", 0)
    ELSE IF v.alternate_url \in VacancyUrls(d)
    THEN Outcome(d, UniqueUrl, 0)
    ELSE IF ~IsNull(v.employer_id) /\ v.employer_id[1] \notin EmployerKeys(d)
    THEN Outcome(d, FkEmployer, 0)
    ELSE Outcome([d EXCEPT !.vacancies = @ \cup {v}], "", 1)

\* INSERT INTO vacancies ... ON CONFLICT (id) DO NOTHING
\* The arbiter index (id) is probed first; a row that is inserted is checked
\* against the UNIQUE index on alternate_url at insertion and against the two
\* REFERENCES constraints at the end of the statement.  Neither referencing
\* column is NOT NULL, and a NULL reference satisfies its constraint.
sql_insert_vacancy(d, v) ==
    IF v.id \in VacancyKeys(d)
    THEN Outcome(d, "", 0)
    ELSE IF v.alternate_url \in VacancyUrls(d)
    THEN Outcome(d, UniqueUrl, 0)
    ELSE IF ~IsNull(v.employer_id) /\ v.employer_id[1] \notin EmployerKeys(d)
    THEN Outcome(d, FkEmployer, 0)
    ELSE IF ~IsNull(v.salary_currency) /\ v.salary_currency[1] \notin CurrencyCodesOf(d)
    THEN Outcome(d, FkCurrency, 0)
    ELSE Outcome([d EXCEPT !.vacancies = @ \cup {v}], "", 1)

\* DELETE FROM employers WHERE id = k, against
\* vacancies.employer_id REFERENCES employers(id) ON DELETE CASCADE.
sql_delete_employer(d, k) ==
    LET gone == {e \in d.employers : e.id = k}
    IN  Outcome([d EXCEPT !.employers = @ \ gone,
                          !.vacancies = {v \in @ : v.employer_id # Some(k)}],
                "", Cardinality(gone))

\* ------------------------------------------------------------- connection
\* psycopg2 opens a transaction at the first execute.  A statement that
\* raises leaves the transaction aborted; the methods reach conn.commit()
\* only when execute returned, and nothing rolls back, so every later execute
\* on the same connection raises InFailedSqlTransaction.
Failed == last.error # ""

\* What the caller saw of the latest call: the method, the keyword of a
\* search, the error raised ("" for none), cursor.rowcount, the value returned.
Result(op, arg, err, n, val) ==
    [op |-> op, arg |-> arg, error |-> err, rowcount |-> n, value |-> val]

Refused(op) == Result(op, <<>>, "InFailedSqlTransaction", 0, <<>>)

\* A statement executed through cursor.execute followed by conn.commit().
Execute(op, out) ==
    IF Failed
    THEN /\ last' = Refused(op)
         /\ db' = db
    ELSE /\ last' = Result(op, <<>>, out.error, out.rowcount, <<>>)
         /\ db' = (IF out.error = "" THEN out.db ELSE db)

add_employer(e) ==
    Execute("add_employer", sql_insert_employer(db, e))

add_currency(c) ==
    Execute("add_currency", sql_insert_currency(db, c))

add_vacancy(v) ==
    Execute("add_vacancy", sql_insert_vacancy(db, v))

delete_employer(k) ==
    Execute("delete_employer", sql_delete_employer(db, k))

\* close() and a new DBManager(db_url): a fresh connection to the same data.
Reconnect ==
    /\ Failed
    /\ last' = Result("connect", <<>>, "", 0, <<>>)
    /\ db' = db

\* ---------------------------------------------------------------- queries
\* What a SELECT gives back: the error it raised ("" for none) and the value
\* the method returns.
Answer(err, val) == [error |-> err, value |-> val]

\* vacancies v JOIN employers e ON v.employer_id = e.id
JoinEmployers(d) ==
    {<<v, e>> \in d.vacancies \X d.employers : v.employer_id = Some(e.id)}

\* COALESCE(c.rate, 1) over  LEFT JOIN currencies c ON v.salary_currency = c.code
RateOf(d, v) ==
    LET cs == {c \in d.currencies :
                 ~IsNull(v.salary_currency) /\ c.code = v.salary_currency[1]}
    IN  IF cs = {} THEN <<1, 1>> ELSE (CHOOSE c \in cs : TRUE).rate

HasBound(v) == ~IsNull(v.salary_from) \/ ~IsNull(v.salary_to)

\* CASE WHEN both bounds THEN (from + to) / 2.0 WHEN from THEN from
\*      WHEN to THEN to END, for a row that has a bound.
CaseSalary(v) ==
    IF ~IsNull(v.salary_from) /\ ~IsNull(v.salary_to)
    THEN Rat(v.salary_from[1] + v.salary_to[1], 2)
    ELSE IF ~IsNull(v.salary_from)
    THEN RatOfInt(v.salary_from[1])
    ELSE RatOfInt(v.salary_to[1])

\* CASE ... END / COALESCE(c.rate, 1)   (defined when the rate is not 0)
Normalised(d, v) == RatDiv(CaseSalary(v), RateOf(d, v))

RECURSIVE SumNormalised(_, _)
SumNormalised(d, vs) ==
    IF vs = {} THEN <<0, 1>>
    ELSE LET v == CHOOSE x \in vs : TRUE
         IN  RatAdd(Normalised(d, v), SumNormalised(d, vs \ {v}))

\* SELECT AVG(CASE ... END / COALESCE(c.rate, 1)) FROM vacancies v
\* LEFT JOIN currencies c ... WHERE v.salary_from IS NOT NULL OR
\* v.salary_to IS NOT NULL;  then  result[0] if result else None.
sql_avg_salary(d) ==
    LET rows == {v \in d.vacancies : HasBound(v)}
    IN  IF \E v \in rows : RateOf(d, v)[1] = 0
        THEN Answer("DivisionByZero", NULL)
        ELSE IF rows = {}
        THEN Answer("", NULL)
        ELSE Answer("", RatDiv(SumNormalised(d, rows), RatOfInt(Cardinality(rows))))

\* ORDER BY v.salary_from DESC NULLS LAST: a may stand before b.
MayPrecede(a, b) ==
    \/ IsNull(b.salary_from)
    \/ ~IsNull(a.salary_from) /\ a.salary_from[1] >= b.salary_from[1]

\* Every order in which the rows of pairs <<v, e>> may come back.
Orderings(pairs) ==
    LET n == Cardinality(pairs)
    IN  {s \in [1..n -> pairs] :
           /\ \A i, j \in 1..n : i # j => s[i] # s[j]
           /\ \A i, j \in 1..n : i < j => MayPrecede(s[i][1], s[j][1])}

\* SELECT e.name, v.name, v.salary_from, v.salary_to, v.salary_currency,
\*        v.alternate_url
Row(p) ==
    <<p[2].name, p[1].name, p[1].salary_from, p[1].salary_to,
      p[1].salary_currency, p[1].alternate_url>>

\* COALESCE(x, 0)
Coalesce0(x) == IF IsNull(x) THEN 0 ELSE x[1]

\* SELECT e.name, v.name, COALESCE(v.salary_from, 0), COALESCE(v.salary_to, 0),
\*        v.salary_currency, v.alternate_url
RowCoalesced(p) ==
    <<p[2].name, p[1].name, Coalesce0(p[1].salary_from), Coalesce0(p[1].salary_to),
      p[1].salary_currency, p[1].alternate_url>>

\* The rows get_all_vacancies may return.
sql_all_vacancies(d) ==
    {[i \in DOMAIN s |-> Row(s[i])] : s \in Orderings(JoinEmployers(d))}

\* The answers get_vacancies_with_higher_salary may give: the average
\* first (its error propagates, None returns []), then the filtered rows.
sql_higher_salary(d) ==
    LET avg == sql_avg_salary(d)
        hit == {p \in JoinEmployers(d) :
                  HasBound(p[1]) /\ RatGt(Normalised(d, p[1]), avg.value)}
    IN  IF avg.error # "" THEN {Answer(avg.error, <<>>)}
        ELSE IF IsNull(avg.value) THEN {Answer("", <<>>)}
        ELSE {Answer("", [i \in DOMAIN s |-> RowCoalesced(s[i])]) : s \in Orderings(hit)}

\* LOWER() on one character of the alphabet in use.
LowerChar(c) ==
    CASE c = "Q" -> "q"
      [] c = "A" -> "a"
      [] OTHER -> c

Lower(s) == [i \in DOMAIN s |-> LowerChar(s[i])]

\* s LIKE p: % matches any run of characters, _ any one character.
RECURSIVE Like(_, _)
Like(s, p) ==
    IF p = <<>> THEN s = <<>>
    ELSE IF Head(p) = "%"
    THEN Like(s, Tail(p)) \/ (s # <<>> /\ Like(Tail(s), p))
    ELSE /\ s # <<>>
         /\ (Head(p) = "_" \/ Head(p) = Head(s))
         /\ Like(Tail(s), Tail(p))

\* keyword = f"%{keyword}%";  WHERE LOWER(v.name) LIKE LOWER(%s)
sql_keyword(d, keyword) ==
    LET pattern == <<"%">> \o keyword \o <<"%">>
        hit == {p \in JoinEmployers(d) : Like(Lower(p[1].name), Lower(pattern))}
    IN  {[i \in DOMAIN s |-> Row(s[i])] : s \in Orderings(hit)}

\* SELECT e.name, COUNT(v.id) FROM employers e LEFT JOIN vacancies v
\* ON e.id = v.employer_id GROUP BY e.name: one row per group.
CountGroups(d) ==
    {<<n, Cardinality({p \in JoinEmployers(d) : p[2].name = n})>> :
        n \in {e.name : e \in d.employers}}

\* ... ORDER BY vacancies_count DESC: every order the groups may come back in.
sql_companies_count(d) ==
    LET g == CountGroups(d)
        n == Cardinality(g)
    IN  {s \in [1..n -> g] :
           /\ \A i, j \in 1..n : i # j => s[i] # s[j]
           /\ \A i, j \in 1..n : i < j => s[i][2] >= s[j][2]}

\* A SELECT through cursor.execute and fetchall/fetchone; no commit follows.
Fetch(op, arg, ans) ==
    /\ IF Failed
       THEN last' = Refused(op)
       ELSE last' = Result(op, arg, ans.error, 0, ans.value)
    /\ db' = db

get_companies_and_vacancies_count ==
    \E rows \in sql_companies_count(db) :
        Fetch("get_companies_and_vacancies_count", <<>>, Answer("", rows))

get_all_vacancies ==
    \E rows \in sql_all_vacancies(db) : Fetch("get_all_vacancies", <<>>, Answer("", rows))

get_avg_salary ==
    \E ans \in {sql_avg_salary(db)} : Fetch("get_avg_salary", <<>>, ans)

get_vacancies_with_higher_salary ==
    \E ans \in sql_higher_salary(db) : Fetch("get_vacancies_with_higher_salary", <<>>, ans)

get_vacancies_with_keyword(keyword) ==
    \E rows \in sql_keyword(db, keyword) :
        Fetch("get_vacancies_with_keyword", keyword, Answer("", rows))

\* ------------------------------------------------------------------- main
\* load_data's arguments for add_vacancy from one item of the API's answer:
\* a salary field is passed only when it is truthy (neither absent nor 0).
Truthy(o) == IF IsNull(o) \/ o = Some(0) THEN NULL ELSE o

vacancy_args(item) ==
    [id |-> item.id, name |-> item.name, employer_id |-> item.employer_id,
     salary_from |-> Truthy(item.salary_from),
     salary_to |-> Truthy(item.salary_to),
     salary_currency |-> item.salary_currency,
     description |-> item.description,
     alternate_url |-> item.alternate_url, published_at |-> item.published_at]

\* str.strip() on the keyword typed at the menu.
RECURSIVE LStrip(_)
LStrip(s) == IF s # <<>> /\ Head(s) = " " THEN LStrip(Tail(s)) ELSE s

RECURSIVE RStrip(_)
RStrip(s) ==
    IF s # <<>> /\ s[Len(s)] = " " THEN RStrip(SubSeq(s, 1, Len(s) - 1)) ELSE s

\* Mutant: the keyword is passed on as typed.
NoStrip(s) == s

Strip(s) == RStrip(LStrip(s))

\* Menu choice 5: keyword = input(...).strip(), then the search.
menu_search(raw) == get_vacancies_with_keyword(Strip(raw))

\* An exception leaves main()'s with block: __exit__ closes the connection
\* and the process ends.
After(normal) == IF last'.error # "" THEN "closed" ELSE normal

\* drop_tables(db)
drop_tables ==
    /\ db' = DroppedTables
    /\ last' = Result("drop_tables", <<>>, "", 0, <<>>)

\* initialize_db(db): the three CREATE TABLE statements
initialize_db ==
    /\ last' = Result("initialize_db", <<>>,
                       IF db.schema THEN "DuplicateTable" ELSE "", 0, <<>>)
    /\ db' = (IF db.schema THEN db ELSE EmptyTables)

\* main(): drop_tables(db) right after the connection is opened.
main_drop_tables ==
    /\ pc = "main"
    /\ drop_tables
    /\ pc' = "dropped"
    /\ UNCHANGED <<choice, processed>>

\* initialize_db(db), in main() and in menu choice 6, then load_data begins.
run_initialize_db ==
    /\ pc = "dropped"
    /\ initialize_db
    /\ pc' = After("load_employers")
    /\ UNCHANGED <<choice, processed>>

\* load_data, first loop: one employer fetched and stored.
load_employer(e) ==
    /\ pc = "load_employers"
    /\ add_employer(e)
    /\ pc' = After("load_employers")
    /\ UNCHANGED <<choice, processed>>

\* load_data: the employers are done, get_currencies() answered.
load_employers_done ==
    /\ pc = "load_employers"
    /\ pc' = "load_currencies"
    /\ UNCHANGED <<db, last, choice, processed>>

\* load_data, second loop: one currency stored.
load_currency(c) ==
    /\ pc = "load_currencies"
    /\ add_currency(c)
    /\ pc' = After("load_currencies")
    /\ UNCHANGED <<choice, processed>>

\* load_data: the currencies are done; processed_vacancy_ids = set().
load_currencies_done ==
    /\ pc = "load_currencies"
    /\ pc' = "load_vacancies"
    /\ processed' = {}
    /\ UNCHANGED <<db, last, choice>>

\* load_data, third loop: one item; an id already processed is skipped.
load_vacancy(item) ==
    /\ pc = "load_vacancies"
    /\ IF item.id \in processed
       THEN UNCHANGED <<db, last, pc, processed>>
       ELSE /\ processed' = processed \cup {item.id}
            /\ add_vacancy(vacancy_args(item))
            /\ pc' = After("load_vacancies")
    /\ UNCHANGED choice

\* load_data returns; interactive_menu prompts.
load_vacancies_done ==
    /\ pc = "load_vacancies"
    /\ pc' = "menu"
    /\ UNCHANGED <<db, last, choice, processed>>

\* An HTTP request of load_data fails: raise_for_status() raises.
load_http_error ==
    /\ pc \in {"load_employers", "load_currencies", "load_vacancies"}
    /\ pc' = "closed"
    /\ last' = Result("load_data", <<>>, "HTTPError", 0, <<>>)
    /\ UNCHANGED <<db, choice, processed>>

\* Menu choices 1 to 5: one query, then the table is printed.
menu_query(c, query) ==
    /\ pc = "menu"
    /\ choice' = c
    /\ query
    /\ pc' = After("menu")
    /\ UNCHANGED processed

\* Menu choice 6: drop_tables(db), then initialize_db and load_data follow.
menu_reload ==
    /\ pc = "menu"
    /\ choice' = "6"
    /\ drop_tables
    /\ pc' = "dropped"
    /\ UNCHANGED processed

\* Menu choice 7: break; the with block closes the connection.
menu_exit ==
    /\ pc = "menu"
    /\ choice' = "7"
    /\ pc' = "closed"
    /\ UNCHANGED <<db, last, processed>>

\* Mutant: the final else branch falls into the reload.
menu_invalid_reloads ==
    /\ pc = "menu"
    /\ choice' = "other"
    /\ drop_tables
    /\ pc' = "dropped"
    /\ UNCHANGED processed

\* Any other input: a message, and the prompt again.
menu_invalid ==
    /\ pc = "menu"
    /\ choice' = "other"
    /\ UNCHANGED <<db, last, pc, processed>>

\* ----------------------------------------------------------------- inputs
\* Arguments are drawn from the declared parameter types: ids are integers,
\* names and urls strings, the salary bounds and the currency code Optional,
\* rate any number.  employer_id is an integer for load_data, which passes
\* int(vacancy["employer"]["id"]); the column takes NULL from a caller that
\* passes None.
EmployerArgs(names) ==
    [id : EmployerIds, name : names, alternate_url : {"hh.ru/employer"}]

CurrencyArgs(rates) == [code : {"USD"}, name : {"dollar"}, rate : rates]

VacancyUrls2 == {"hh.ru/vacancy/a", "hh.ru/vacancy/b"}

TitleQA == <<"Q", "A">>
TitleQ_a == <<"Q", " ", "a">>

Owners == {Some(k) : k \in EmployerIds}

VacancyArgs(owners, titles, salaries, codes) ==
    {v \in [id : VacancyIds, name : titles, employer_id : owners,
            salary_from : {s[1] : s \in salaries},
            salary_to : {s[2] : s \in salaries},
            salary_currency : codes, description : {""},
            alternate_url : VacancyUrls2, published_at : {"2024-01-01"}] :
        <<v.salary_from, v.salary_to>> \in salaries}

\* ---------------------------------------------------------- specification
Connected == Result("connect", <<>>, "", 0, <<>>)

Init ==
    /\ db = EmptyTables
    /\ last = Connected
    /\ pc = "api"
    /\ choice = ""
    /\ processed = {}

\* A method called by any caller: main()'s position is not involved.
Frame == UNCHANGED <<pc, choice, processed>>

\* Any call that writes, in any order, with arguments from the given sets.
Writes(E, C, V) ==
    \/ \E e \in E : add_employer(e) /\ Frame
    \/ \E c \in C : add_currency(c) /\ Frame
    \/ \E v \in V : add_vacancy(v) /\ Frame
    \/ \E k \in EmployerIds : delete_employer(k) /\ Frame
    \/ Reconnect /\ Frame

\* Any query, and the menu's keyword search.
Reads(K) ==
    \/ get_companies_and_vacancies_count /\ Frame
    \/ get_all_vacancies /\ Frame
    \/ get_avg_salary /\ Frame
    \/ get_vacancies_with_higher_salary /\ Frame
    \/ \E k \in K : get_vacancies_with_keyword(k) /\ Frame
    \/ \E k \in K : menu_search(k) /\ Frame

\* The persistence layer: payloads that differ per key, a rate of 0, two
\* urls for any vacancy id, a currency that may not be stored.
SpecEmployers == EmployerArgs({"Acme", "Bolt"})
SpecCurrencies == CurrencyArgs({<<0, 1>>, <<1, 1>>})
SpecVacancies ==
    VacancyArgs(Owners, {TitleQA}, {<<Some(1000), NULL>>}, {NULL, Some("USD")})

Next == Writes(SpecEmployers, SpecCurrencies, SpecVacancies)

Spec == Init /\ [][Next]_vars

\* The query layer over stored data: employers of one name, rates 0 and 1/2,
\* the salaries (none), (500, none) and (1000, 2000).
QueryEmployers == EmployerArgs({"Acme"})
QueryCurrencies == CurrencyArgs({<<0, 1>>, <<1, 2>>})
QuerySalaries == {<<NULL, NULL>>, <<Some(500), NULL>>, <<Some(1000), Some(2000)>>}
QueryVacancies == VacancyArgs(Owners, {TitleQA}, QuerySalaries, {NULL, Some("USD")})
QueryKeywords == {<<"q">>}

QueryNext ==
    \/ Writes(QueryEmployers, QueryCurrencies, QueryVacancies)
    \/ Reads(QueryKeywords)

QuerySpec == Init /\ [][QueryNext]_vars

\* The owning employer: a vacancy with an employer id, stored or not, or
\* with none.
OwnerEmployers == EmployerArgs({"Acme"})
OwnerCurrencies == CurrencyArgs({<<1, 1>>})
OwnerVacancies ==
    VacancyArgs(Owners \cup {NULL}, {TitleQA}, {<<Some(1000), NULL>>}, {NULL})

OwnerNext == Writes(OwnerEmployers, OwnerCurrencies, OwnerVacancies)

OwnerSpec == Init /\ [][OwnerNext]_vars

\* Salaries and currencies: the rates 0 and 1/2, salaries with one and with
\* both bounds, a currency code that may or may not be stored, and the two
\* queries that normalise a salary.
RateEmployers == EmployerArgs({"Acme"})
RateCurrencies == CurrencyArgs({<<0, 1>>, <<1, 2>>})
RateVacancies ==
    VacancyArgs(Owners, {TitleQA},
                {<<Some(500), NULL>>, <<Some(1000), Some(2000)>>},
                {NULL, Some("USD")})

RateNext ==
    \/ Writes(RateEmployers, RateCurrencies, RateVacancies)
    \/ get_avg_salary /\ Frame
    \/ get_vacancies_with_higher_salary /\ Frame

RateSpec == Init /\ [][RateNext]_vars

\* The keyword search: a title per posting, with and without a space, and
\* keywords that are empty, blank, or not.
TitleAt(url) == IF url = "hh.ru/vacancy/a" THEN TitleQA ELSE TitleQ_a
SearchEmployers == EmployerArgs({"Acme"})
SearchCurrencies == CurrencyArgs({<<1, 2>>})
SearchVacancies ==
    {v \in VacancyArgs(Owners, {TitleQA, TitleQ_a}, {<<Some(1000), NULL>>}, {NULL}) :
        v.name = TitleAt(v.alternate_url)}
SearchKeywords == {<<>>, <<" ">>, <<"q">>, <<" ", "a">>}

SearchNext ==
    \/ Writes(SearchEmployers, SearchCurrencies, SearchVacancies)
    \/ Reads(SearchKeywords)

SearchSpec == Init /\ [][SearchNext]_vars

\* The program: main() from the opened connection to the closed one, over
\* what the API may answer.
ApiEmployers == EmployerArgs({"Acme"})
ApiCurrencies == CurrencyArgs({<<1, 2>>})
ApiVacancies ==
    {v \in VacancyArgs(Owners, {TitleQA, TitleQ_a}, {<<NULL, NULL>>, <<Some(0), Some(2000)>>},
                       {NULL, Some("USD")}) :
        v.name = TitleAt(v.alternate_url)}
MenuKeywords == {<<" ">>, <<"q">>}

MainInit ==
    /\ db \in {EmptyTables, DroppedTables}
    /\ last = Connected
    /\ pc = "main"
    /\ choice = ""
    /\ processed = {}

MainNext ==
    \/ main_drop_tables
    \/ run_initialize_db
    \/ \E e \in ApiEmployers : load_employer(e)
    \/ load_employers_done
    \/ \E c \in ApiCurrencies : load_currency(c)
    \/ load_currencies_done
    \/ \E item \in ApiVacancies : load_vacancy(item)
    \/ load_vacancies_done
    \/ load_http_error
    \/ menu_query("1", get_companies_and_vacancies_count)
    \/ menu_query("2", get_all_vacancies)
    \/ menu_query("3", get_avg_salary)
    \/ menu_query("4", get_vacancies_with_higher_salary)
    \/ \E raw \in MenuKeywords : menu_query("5", menu_search(raw))
    \/ menu_reload
    \/ menu_exit
    \/ menu_invalid

MainSpec == MainInit /\ [][MainNext]_vars

\* ----------------------------------------------------------------- claims
\* The value the specification gives one vacancy: the midpoint of both
\* bounds or the single bound, over the rate of its currency, 1 when it has
\* no currency or no rate.
ExpectedRate(v) ==
    IF IsNull(v.salary_currency) \/ v.salary_currency[1] \notin CurrencyCodesOf(db)
    THEN <<1, 1>>
    ELSE (CHOOSE c \in db.currencies : c.code = v.salary_currency[1]).rate

ExpectedSalary(v) ==
    LET top == (IF IsNull(v.salary_from) THEN 0 ELSE v.salary_from[1])
               + (IF IsNull(v.salary_to) THEN 0 ELSE v.salary_to[1])
        n == (IF IsNull(v.salary_from) THEN 0 ELSE 1)
             + (IF IsNull(v.salary_to) THEN 0 ELSE 1)
    IN  RatDiv(Rat(top, n), ExpectedRate(v))

Bounded == {v \in db.vacancies : ~(IsNull(v.salary_from) /\ IsNull(v.salary_to))}

RECURSIVE ExpectedSum(_)
ExpectedSum(vs) ==
    IF vs = {} THEN <<0, 1>>
    ELSE LET v == CHOOSE x \in vs : TRUE
         IN  RatAdd(ExpectedSalary(v), ExpectedSum(vs \ {v}))

ExpectedMean ==
    IF Bounded = {} THEN NULL
    ELSE RatDiv(ExpectedSum(Bounded), <<Cardinality(Bounded), 1>>)

ExpectedAbove ==
    IF Bounded = {} THEN {}
    ELSE {v \in Bounded : RatGt(ExpectedSalary(v), ExpectedMean)}

\* The urls of the rows a query returned, and whether they are exactly the
\* vacancies vs, one row each.
UrlsOf(rows) == {rows[i][6] : i \in DOMAIN rows}
ReturnsExactly(rows, vs) ==
    /\ Len(rows) = Cardinality(vs)
    /\ UrlsOf(rows) = {v.alternate_url : v \in vs}

Blank(k) == \A i \in DOMAIN k : k[i] = " "
Contains(t, k) ==
    \E i \in 0..(Len(t) - Len(k)) : SubSeq(t, i + 1, i + Len(k)) = k

\* C1: first write wins for all three upserts.  A call of add_employer,
\* add_currency or add_vacancy whose key (id, code) is already stored raises
\* no error and leaves every table as it was, so the row stays the one first
\* written; a call whose key is not stored and that raises no error adds
\* exactly its payload as the row and changes no other row.
C1_FirstWriteWins ==
    [][/\ (~Failed /\ last'.op = "add_employer") =>
            \A e \in SpecEmployers : add_employer(e) =>
                /\ last'.error = ""
                /\ IF \E r \in db.employers : r.id = e.id
                   THEN db' = db
                   ELSE db' = [db EXCEPT !.employers = @ \cup {e}]
       /\ (~Failed /\ last'.op = "add_currency") =>
            \A c \in SpecCurrencies : add_currency(c) =>
                /\ last'.error = ""
                /\ IF \E r \in db.currencies : r.code = c.code
                   THEN db' = db
                   ELSE db' = [db EXCEPT !.currencies = @ \cup {c}]
       /\ (~Failed /\ last'.op = "add_vacancy") =>
            \A v \in SpecVacancies : add_vacancy(v) =>
                IF \E r \in db.vacancies : r.id = v.id
                THEN last'.error = "" /\ db' = db
                ELSE last'.error = "" => db' = [db EXCEPT !.vacancies = @ \cup {v}]
      ]_vars

\* C1 witness: an add_vacancy for a stored id was skipped without error
\* while a currency is stored.
C1_SecondWriteSkipped ==
    /\ last.op = "add_vacancy"
    /\ last.error = ""
    /\ last.rowcount = 0
    /\ db.vacancies # {}
    /\ db.currencies # {}

\* C2: add_vacancy with an id that is not stored and the alternate_url of a
\* stored vacancy of another id raises the unique violation to the caller and
\* leaves the stored vacancies as they were.
C2_DuplicateUrlRejected ==
    [][(~Failed /\ last'.op = "add_vacancy") => \A v \in SpecVacancies :
          (/\ v.id \notin VacancyKeys(db)
           /\ \E w \in db.vacancies :
                 w.id # v.id /\ w.alternate_url = v.alternate_url
           /\ add_vacancy(v))
          => (last'.error = UniqueUrl /\ db'.vacancies = db.vacancies)]_vars

\* C2 witness: an add_vacancy has just failed on the url constraint.
C2_UrlViolationRaised ==
    /\ last.op = "add_vacancy"
    /\ last.error = UniqueUrl
    /\ db.vacancies # {}

\* A call of add_vacancy(v) that the database runs, for a new id, a new url
\* and a stored employer, with a non-null currency code that has no row.
AbsentCurrencyCall(v) ==
    /\ ~IsNull(v.salary_currency)
    /\ v.salary_currency[1] \notin CurrencyCodesOf(db)
    /\ v.id \notin VacancyKeys(db)
    /\ v.alternate_url \notin VacancyUrls(db)
    /\ v.employer_id[1] \in EmployerKeys(db)
    /\ add_vacancy(v)

C4_OneRowPerEmployer ==
    (last.op = "get_companies_and_vacancies_count" /\ last.error = "") =>
        LET rows == last.value
        IN  /\ Len(rows) = Cardinality(db.employers)
            /\ \A e \in db.employers : \E i \in DOMAIN rows :
                  rows[i] = <<e.name,
                              Cardinality({v \in db.vacancies : v.employer_id = Some(e.id)})>>
            /\ \A i, j \in DOMAIN rows : i < j => rows[i][2] >= rows[j][2]

\* C5: get_avg_salary returns the mean, over the vacancies with a salary
\* bound, of the midpoint or single bound divided by the currency's rate (1
\* without a currency), and None when no vacancy has a bound.
C5_AverageIsMean ==
    (last.op = "get_avg_salary" /\ last.error # "InFailedSqlTransaction") =>
        /\ last.error = ""
        /\ last.value = ExpectedMean

\* C6: get_vacancies_with_higher_salary returns exactly the vacancies whose
\* normalised salary is strictly greater than the average, and the empty
\* list when there is no average.
C6_AboveAverageOnly ==
    (last.op = "get_vacancies_with_higher_salary"
       /\ last.error # "InFailedSqlTransaction") =>
        /\ last.error = ""
        /\ ReturnsExactly(last.value, ExpectedAbove)

C8_NoOrphanVacancies ==
    \A v \in db.vacancies : \E e \in db.employers : v.employer_id = Some(e.id)

\* C9: every stored currency has a rate greater than 0.
C9_RatesPositive == \A c \in db.currencies : c.rate[1] > 0

\* C10 as stated: the tables are dropped only in response to menu choice 6.
C10_ResetOnlyOnReload == last.op = "drop_tables" => choice = "6"

\* C10 amended: the schema reset happens once without any command, when
\* main() starts and before the menu is shown, and after that only in
\* response to menu choice 6; initialize_db runs only right after drop_tables.
C10_ResetAtStartOrOnReload ==
    [][/\ drop_tables =>
            \/ pc = "main" /\ choice = ""
            \/ pc = "menu" /\ choice' = "6"
       /\ initialize_db => last.op = "drop_tables"
       /\ pc' # "main"
      ]_vars

\* C10 witness: the tables have just been dropped for menu choice 6.
C10_ReloadDropped ==
    /\ pc = "dropped"
    /\ choice = "6"
    /\ last.op = "drop_tables"

=============================================================================
